---- MODULE Spec2Model ----
(***************************************************************************)
(* zenstack-trpc: the schema-driven validator factory (zod-schemas.ts) and *)
(* the router factory with its generic dispatch handler                    *)
(* (router-generator.ts), as a state machine.                              *)
(***************************************************************************)
EXTENDS Integers, Sequences, FiniteSets, TLC

VARIABLES
  schema,   \* the SchemaDef handed to the generators
  built,    \* TRUE once createZenStackRouter has returned
  options,  \* the third argument createZenStackRouter was called with
  router,   \* the generated router: sub-router key -> operation -> endpoint
  calls,    \* the endpoint invocations: slot -> invocation record
  probe     \* the last direct use of a validator factory output (.safeParse)

vars == <<schema, built, options, router, calls, probe>>

(***************************************************************************)
(* Bounds                                                                  *)
(***************************************************************************)
MaxCalls == 2     \* invocation slots
MaxArrayLen == 1  \* longest array value among the enumerated inputs

(***************************************************************************)
(* JavaScript values, tagged by their runtime type                         *)
(***************************************************************************)
Undef == [k |-> "undef", a |-> ""]
Null == [k |-> "null", a |-> ""]
Str(s) == [k |-> "str", a |-> s]
Num(s) == [k |-> "num", a |-> s]
Bool(s) == [k |-> "bool", a |-> s]
BigIntV(s) == [k |-> "bigint", a |-> s]
DateV(s) == [k |-> "date", a |-> s]
BytesV(s) == [k |-> "bytes", a |-> s]
Obj(f) == [k |-> "obj", f |-> f]
Arr(s) == [k |-> "arr", s |-> s]
EmptyObj == Obj([key \in {} |-> Undef])

\* the strings of the input domain that are ISO-8601 datetimes
DatetimeStrings == {"2024-01-01T00:00:00Z"}

(***************************************************************************)
(* The validation library: schema constructors and parsing (zod 3)         *)
(***************************************************************************)
ZString == [z |-> "string"]
ZDatetime == [z |-> "datetime"]
ZNumber == [z |-> "number"]
ZBigint == [z |-> "bigint"]
ZBoolean == [z |-> "boolean"]
ZDate == [z |-> "date"]
ZAny_BooleanOnly == [z |-> "boolean"]

ZAny_BooleanOrObject ==
  [z |-> "union",
   opts |-> <<[z |-> "boolean"],
              [z |-> "object", shape |-> <<>>, unknownKeys |-> "passthrough"]>>]

ZAny == [z |-> "any"]
ZNull == [z |-> "null"]
ZUint8Array == [z |-> "instanceof"]
ZEnum(vals) == [z |-> "enum", vals |-> vals]
ZUnion(opts) == [z |-> "union", opts |-> opts]
ZArray(el) == [z |-> "array", el |-> el]
ZOptional(in) == [z |-> "optional", in |-> in]
ZNullable(in) == [z |-> "nullable", in |-> in]
ZObject(shape) == [z |-> "object", shape |-> shape, unknownKeys |-> "strip"]
Passthrough_Strict(s) == [s EXCEPT !.unknownKeys = "strict"]

Passthrough_Strip(s) == [s EXCEPT !.unknownKeys = "strip"]

Passthrough(s) == [s EXCEPT !.unknownKeys = "passthrough"]
NoShape == [key \in {} |-> ZAny]

Fail == [ok |-> FALSE, v |-> Undef]
Ok(v) == [ok |-> TRUE, v |-> v]

MinOf(S) == CHOOSE i \in S : \A j \in S : i <= j

RECURSIVE ZParse(_, _)
ZParse(s, v) ==
  CASE s.z = "any" -> Ok(v)
    [] s.z = "string" -> IF v.k = "str" THEN Ok(v) ELSE Fail
    [] s.z = "datetime" ->
         IF v.k = "str" /\ v.a \in DatetimeStrings THEN Ok(v) ELSE Fail
    [] s.z = "number" -> IF v.k = "num" THEN Ok(v) ELSE Fail
    [] s.z = "bigint" -> IF v.k = "bigint" THEN Ok(v) ELSE Fail
    [] s.z = "boolean" -> IF v.k = "bool" THEN Ok(v) ELSE Fail
    [] s.z = "date" -> IF v.k = "date" THEN Ok(v) ELSE Fail
    [] s.z = "null" -> IF v.k = "null" THEN Ok(v) ELSE Fail
    [] s.z = "instanceof" -> IF v.k = "bytes" THEN Ok(v) ELSE Fail
    [] s.z = "enum" ->
         IF v.k = "str" /\ v.a \in s.vals THEN Ok(v) ELSE Fail
    [] s.z = "optional" -> IF v.k = "undef" THEN Ok(v) ELSE ZParse(s.in, v)
    [] s.z = "nullable" -> IF v.k = "null" THEN Ok(v) ELSE ZParse(s.in, v)
    [] s.z = "array" ->
         IF v.k # "arr" THEN Fail
         ELSE LET rs == [i \in DOMAIN v.s |-> ZParse(s.el, v.s[i])]
              IN  IF \A i \in DOMAIN rs : rs[i].ok
                  THEN Ok(Arr([i \in DOMAIN rs |-> rs[i].v]))
                  ELSE Fail
    [] s.z = "union" ->
         LET valid == {i \in DOMAIN s.opts : ZParse(s.opts[i], v).ok}
         IN  IF valid = {} THEN Fail ELSE ZParse(s.opts[MinOf(valid)], v)
    [] s.z = "object" ->
         \* every object that is not an array, null or a Date is of parsed
         \* type object: an (empty) Uint8Array has no enumerable key of its own
         IF v.k \notin {"obj", "bytes"} THEN Fail
         ELSE LET shapeKeys == DOMAIN s.shape
                  dataKeys == IF v.k = "obj" THEN DOMAIN v.f ELSE {}
                  get(key) == IF key \in dataKeys THEN v.f[key] ELSE Undef
                  rs == [key \in shapeKeys |-> ZParse(s.shape[key], get(key))]
                  extraKeys == dataKeys \ shapeKeys
                  kept == {key \in shapeKeys :
                             key \in dataKeys \/ rs[key].v # Undef}
                  outKeys == kept \cup (IF s.unknownKeys = "passthrough"
                                        THEN extraKeys ELSE {})
              IN  IF (\E key \in shapeKeys : ~rs[key].ok)
                     \/ (s.unknownKeys = "strict" /\ extraKeys # {})
                  THEN Fail
                  ELSE Ok(Obj([key \in outKeys |->
                                 IF key \in shapeKeys THEN rs[key].v
                                 ELSE v.f[key]]))

Accepts(s, v) == ZParse(s, v).ok

\* variant: an object reports the first of its violated keys only
RECURSIVE ZIssues_FirstOnly(_, _, _)
ZIssues_FirstOnly(s, v, path) ==
  CASE s.z = "any" -> {}
    [] s.z \in {"optional", "nullable"} ->
         IF Accepts(s, v) THEN {} ELSE ZIssues_FirstOnly(s.in, v, path)
    [] s.z = "array" ->
         IF v.k # "arr" THEN {path}
         ELSE UNION {ZIssues_FirstOnly(s.el, v.s[i], Append(path, ToString(i))) :
                       i \in DOMAIN v.s}
    [] s.z = "object" ->
         IF v.k \notin {"obj", "bytes"} THEN {path}
         ELSE LET get(key) == IF v.k = "obj" /\ key \in DOMAIN v.f
                              THEN v.f[key] ELSE Undef
                  failing == {key \in DOMAIN s.shape :
                                ~Accepts(s.shape[key], get(key))}
              IN  IF failing = {} THEN {}
                  ELSE LET key == CHOOSE key \in failing : TRUE
                       IN  ZIssues_FirstOnly(s.shape[key], get(key),
                                             Append(path, key))
    [] OTHER -> IF Accepts(s, v) THEN {} ELSE {path}

\* ZodError.issues of schema.safeParse(v): the paths of the issues. An object
\* and an array go through all their entries; a union none of whose options
\* is valid reports one issue at its own path
RECURSIVE ZIssues(_, _, _)
ZIssues(s, v, path) ==
  CASE s.z = "any" -> {}
    [] s.z \in {"optional", "nullable"} ->
         IF Accepts(s, v) THEN {} ELSE ZIssues(s.in, v, path)
    [] s.z = "array" ->
         IF v.k # "arr" THEN {path}
         ELSE UNION {ZIssues(s.el, v.s[i], Append(path, ToString(i))) :
                       i \in DOMAIN v.s}
    [] s.z = "object" ->
         IF v.k \notin {"obj", "bytes"} THEN {path}
         ELSE LET get(key) == IF v.k = "obj" /\ key \in DOMAIN v.f
                              THEN v.f[key] ELSE Undef
              IN  UNION {ZIssues(s.shape[key], get(key), Append(path, key)) :
                           key \in DOMAIN s.shape}
                  \cup (IF s.unknownKeys = "strict" /\ v.k = "obj"
                           /\ DOMAIN v.f \ DOMAIN s.shape # {}
                        THEN {path} ELSE {})
    [] OTHER -> IF Accepts(s, v) THEN {} ELSE {path}

\* schema.safeParse(v): success and data, or the issues of the error
SafeParse(s, v) ==
  [ok |-> ZParse(s, v).ok, v |-> ZParse(s, v).v,
   issues |-> ZIssues(s, v, <<>>)]

(***************************************************************************)
(* zod-schemas.ts                                                          *)
(***************************************************************************)
\* schema.models[modelName]: the model's metadata, when the name is a key
HasModel(sch, modelName) == modelName \in DOMAIN sch.models

getZodTypeForField(fieldType, isOptional, isArray) ==
  LET baseSchema ==
        CASE fieldType = "String" -> ZString
          [] fieldType \in {"Int", "Float"} -> ZNumber
          [] fieldType = "BigInt" -> ZBigint
          [] fieldType = "Boolean" -> ZBoolean
          [] fieldType = "DateTime" -> ZUnion(<<ZDate, ZDatetime>>)
          [] fieldType = "Json" -> ZAny
          [] fieldType = "Bytes" -> ZUint8Array
          [] fieldType = "Decimal" -> ZUnion(<<ZNumber, ZString>>)
          [] OTHER -> ZAny
      arrayed == IF isArray THEN ZArray(baseSchema) ELSE baseSchema
  IN  IF isOptional THEN ZNullable(ZOptional(arrayed)) ELSE arrayed

RelationCreateShape ==
  [key \in {"create", "connect", "connectOrCreate"} |-> ZOptional(ZAny)]

\* variant: a foreign key is optional only when its other attributes say so
createCreateDataSchema_FkRequired(sch, modelName) ==
  IF ~HasModel(sch, modelName) THEN Passthrough(ZObject(NoShape))
  ELSE LET fields == sch.models[modelName].fields
           entry(fieldDef) ==
             LET isOptional == fieldDef.optional \/ fieldDef.hasDefault
                               \/ fieldDef.id \/ fieldDef.updatedAt
             IN  IF fieldDef.relation
                 THEN ZOptional(Passthrough(ZObject(RelationCreateShape)))
                 ELSE getZodTypeForField(fieldDef.type, isOptional,
                                         fieldDef.array)
       IN  Passthrough(ZObject([fieldName \in DOMAIN fields |->
                                  entry(fields[fieldName])]))

createCreateDataSchema(sch, modelName) ==
  IF ~HasModel(sch, modelName) THEN Passthrough(ZObject(NoShape))
  ELSE LET fields == sch.models[modelName].fields
           entry(fieldDef) ==
             LET isRelation == fieldDef.relation
                 hasDefault == fieldDef.hasDefault
                 isId == fieldDef.id
                 isUpdatedAt == fieldDef.updatedAt
                 isOptional == fieldDef.optional \/ hasDefault \/ isId
                               \/ isUpdatedAt
                 isForeignKey == fieldDef.foreignKey
                 isFkOptional == IF isForeignKey THEN TRUE ELSE isOptional
             IN  IF isRelation
                 THEN ZOptional(Passthrough(ZObject(RelationCreateShape)))
                 ELSE getZodTypeForField(fieldDef.type, isFkOptional,
                                         fieldDef.array)
       IN  Passthrough(ZObject([fieldName \in DOMAIN fields |->
                                  entry(fields[fieldName])]))

RelationUpdateShape ==
  [key \in {"create", "connect", "connectOrCreate", "disconnect", "delete",
            "update", "updateMany", "deleteMany", "set", "upsert"} |->
     ZOptional(ZAny)]

\* the entry of the updateData shape for one field
UpdateEntry(fieldDef) ==
  IF fieldDef.relation
  THEN ZOptional(Passthrough(ZObject(RelationUpdateShape)))
  ELSE getZodTypeForField(fieldDef.type, TRUE, fieldDef.array)

\* variant: identifier fields are not skipped
createUpdateDataSchema_KeepsId(sch, modelName) ==
  IF ~HasModel(sch, modelName) THEN Passthrough(ZObject(NoShape))
  ELSE LET fields == sch.models[modelName].fields
       IN  Passthrough(ZObject([fieldName \in DOMAIN fields |->
                                  UpdateEntry(fields[fieldName])]))

\* variant: fields with a default and auto-updated timestamps are skipped too
createUpdateDataSchema_SkipsDefaults(sch, modelName) ==
  IF ~HasModel(sch, modelName) THEN Passthrough(ZObject(NoShape))
  ELSE LET fields == sch.models[modelName].fields
           shaped == {fieldName \in DOMAIN fields :
                        /\ ~fields[fieldName].id
                        /\ ~fields[fieldName].hasDefault
                        /\ ~fields[fieldName].updatedAt}
       IN  Passthrough(ZObject([fieldName \in shaped |->
                                  UpdateEntry(fields[fieldName])]))

createUpdateDataSchema(sch, modelName) ==
  IF ~HasModel(sch, modelName) THEN Passthrough(ZObject(NoShape))
  ELSE LET fields == sch.models[modelName].fields
           shaped == {fieldName \in DOMAIN fields : ~fields[fieldName].id}
       IN  Passthrough(ZObject([fieldName \in shaped |->
                                  UpdateEntry(fields[fieldName])]))

WhereOperatorShape_BaseTypedText(baseType) ==
  LET nullableBaseType == ZNullable(baseType)
  IN  [key \in {"equals", "not", "in", "notIn", "lt", "lte", "gt", "gte",
                "contains", "startsWith", "endsWith"} |->
         CASE key \in {"equals", "not"} -> ZOptional(nullableBaseType)
           [] key \in {"in", "notIn"} -> ZOptional(ZArray(baseType))
           [] OTHER -> ZOptional(baseType)]

WhereOperatorShape(baseType) ==
  LET nullableBaseType == ZNullable(baseType)
  IN  [key \in {"equals", "not", "in", "notIn", "lt", "lte", "gt", "gte",
                "contains", "startsWith", "endsWith"} |->
         CASE key \in {"equals", "not"} -> ZOptional(nullableBaseType)
           [] key \in {"in", "notIn"} -> ZOptional(ZArray(baseType))
           [] key \in {"lt", "lte", "gt", "gte"} -> ZOptional(baseType)
           [] OTHER -> ZOptional(ZString)]

\* ZodObject.merge: the merged-in shape wins, and so does its unknown-key policy
Merge(s1, s2) ==
  [z |-> "object",
   shape |-> [key \in DOMAIN s1.shape \cup DOMAIN s2.shape |->
                IF key \in DOMAIN s2.shape THEN s2.shape[key]
                ELSE s1.shape[key]],
   unknownKeys |-> s2.unknownKeys]

\* ZodObject.partial: every entry of the shape becomes optional
Partial(s) ==
  [s EXCEPT !.shape = [key \in DOMAIN s.shape |-> ZOptional(s.shape[key])]]

createWhereSchema(sch, modelName) ==
  IF ~HasModel(sch, modelName) THEN Passthrough(ZObject(NoShape))
  ELSE LET fields == sch.models[modelName].fields
           entry(fieldDef) ==
             IF fieldDef.relation THEN ZOptional(ZAny)
             ELSE LET baseType ==
                        getZodTypeForField(fieldDef.type, FALSE, FALSE)
                  IN  ZOptional(ZUnion(<<baseType, ZNull,
                        Passthrough(ZObject(WhereOperatorShape(baseType)))>>))
           baseSchema == Passthrough(ZObject([fieldName \in DOMAIN fields |->
                                                entry(fields[fieldName])]))
           logical ==
             ZObject([key \in {"AND", "OR", "NOT"} |->
                        IF key = "OR" THEN ZOptional(ZArray(baseSchema))
                        ELSE ZOptional(ZUnion(<<baseSchema,
                                                ZArray(baseSchema)>>))])
       IN  Partial(Merge(logical, baseSchema))

SeqRange(q) == {q[i] : i \in DOMAIN q}

createUniqueWhereSchema_Strict(sch, modelName) ==
  IF ~HasModel(sch, modelName) THEN Passthrough(ZObject(NoShape))
  ELSE LET uniqueFields == sch.models[modelName].uniqueFields
           fields == sch.models[modelName].fields
           compoundShape(compoundFields) ==
             [compoundField \in SeqRange(compoundFields) |->
                IF compoundField \in DOMAIN fields
                THEN getZodTypeForField(fields[compoundField].type, FALSE,
                                        fields[compoundField].array)
                ELSE ZAny]
           entry(fieldDef) ==
             IF fieldDef.compound
             THEN ZOptional(Passthrough(ZObject(compoundShape(fieldDef.fields))))
             ELSE getZodTypeForField(fieldDef.type, TRUE, FALSE)
       IN  [ZObject([fieldName \in DOMAIN uniqueFields |->
                       entry(uniqueFields[fieldName])])
              EXCEPT !.unknownKeys = "strict"]

\* variant: a simple unique key must be present and not null
createUniqueWhereSchema_KeyRequired(sch, modelName) ==
  IF ~HasModel(sch, modelName) THEN Passthrough(ZObject(NoShape))
  ELSE LET uniqueFields == sch.models[modelName].uniqueFields
           fields == sch.models[modelName].fields
           compoundShape(compoundFields) ==
             [compoundField \in SeqRange(compoundFields) |->
                IF compoundField \in DOMAIN fields
                THEN getZodTypeForField(fields[compoundField].type, FALSE,
                                        fields[compoundField].array)
                ELSE ZAny]
           entry(fieldDef) ==
             IF fieldDef.compound
             THEN ZOptional(Passthrough(ZObject(compoundShape(fieldDef.fields))))
             ELSE getZodTypeForField(fieldDef.type, FALSE, FALSE)
       IN  Passthrough(ZObject([fieldName \in DOMAIN uniqueFields |->
                                  entry(uniqueFields[fieldName])]))

createUniqueWhereSchema(sch, modelName) ==
  IF ~HasModel(sch, modelName) THEN Passthrough(ZObject(NoShape))
  ELSE LET uniqueFields == sch.models[modelName].uniqueFields
           fields == sch.models[modelName].fields
           compoundShape(compoundFields) ==
             [compoundField \in SeqRange(compoundFields) |->
                IF compoundField \in DOMAIN fields
                THEN getZodTypeForField(fields[compoundField].type, FALSE,
                                        fields[compoundField].array)
                ELSE ZAny]
           entry(fieldDef) ==
             IF fieldDef.compound
             THEN ZOptional(Passthrough(ZObject(compoundShape(fieldDef.fields))))
             ELSE getZodTypeForField(fieldDef.type, TRUE, FALSE)
       IN  Passthrough(ZObject([fieldName \in DOMAIN uniqueFields |->
                                  entry(uniqueFields[fieldName])]))

createSelectSchema(sch, modelName) ==
  IF ~HasModel(sch, modelName) THEN Passthrough(ZObject(NoShape))
  ELSE LET fields == sch.models[modelName].fields
       IN  ZOptional(Passthrough(ZObject([fieldName \in DOMAIN fields |->
             ZOptional(ZUnion(<<ZBoolean, ZAny>>))])))

createIncludeSchema_Strict(sch, modelName) ==
  IF ~HasModel(sch, modelName) THEN Passthrough(ZObject(NoShape))
  ELSE LET fields == sch.models[modelName].fields
           relations == {fieldName \in DOMAIN fields :
                           fields[fieldName].relation}
       IN  ZOptional([ZObject([fieldName \in relations |->
                                 ZOptional(ZUnion(<<ZBoolean, ZAny>>))])
                        EXCEPT !.unknownKeys = "strict"])

createIncludeSchema(sch, modelName) ==
  IF ~HasModel(sch, modelName) THEN Passthrough(ZObject(NoShape))
  ELSE LET fields == sch.models[modelName].fields
           relations == {fieldName \in DOMAIN fields :
                           fields[fieldName].relation}
       IN  ZOptional(Passthrough(ZObject([fieldName \in relations |->
             ZOptional(ZUnion(<<ZBoolean, ZAny>>))])))

createOrderBySchema_AnyString(sch, modelName) ==
  IF ~HasModel(sch, modelName) THEN ZAny
  ELSE LET fields == sch.models[modelName].fields
           sortOrder == ZString
           scalars == {fieldName \in DOMAIN fields :
                         ~fields[fieldName].relation}
           ordering == Passthrough(ZObject([fieldName \in scalars |->
                                              ZOptional(sortOrder)]))
       IN  ZOptional(ZUnion(<<ordering, ZArray(ordering)>>))

createOrderBySchema(sch, modelName) ==
  IF ~HasModel(sch, modelName) THEN ZAny
  ELSE LET fields == sch.models[modelName].fields
           sortOrder == ZEnum({"asc", "desc"})
           scalars == {fieldName \in DOMAIN fields :
                         ~fields[fieldName].relation}
           ordering == Passthrough(ZObject([fieldName \in scalars |->
                                              ZOptional(sortOrder)]))
       IN  ZOptional(ZUnion(<<ordering, ZArray(ordering)>>))

\* an object schema given as a set of <<key, validator>> pairs
Shape_AllOptional(pairs) ==
  [key \in {p[1] : p \in pairs} |->
     ZOptional((CHOOSE p \in pairs : p[1] = key)[2])]

Shape(pairs) ==
  [key \in {p[1] : p \in pairs} |->
     (CHOOSE p \in pairs : p[1] = key)[2]]

createModelSchemas(sch, modelName) ==
  LET whereSchema == createWhereSchema(sch, modelName)
      uniqueWhereSchema == createUniqueWhereSchema(sch, modelName)
      createDataSchema == createCreateDataSchema(sch, modelName)
      updateDataSchema == createUpdateDataSchema(sch, modelName)
      selectSchema == createSelectSchema(sch, modelName)
      includeSchema == createIncludeSchema(sch, modelName)
      orderBySchema == createOrderBySchema(sch, modelName)
      where == <<"where", ZOptional(whereSchema)>>
      uwhere == <<"where", uniqueWhereSchema>>
      select == <<"select", selectSchema>>
      include == <<"include", includeSchema>>
      orderBy == <<"orderBy", orderBySchema>>
      skip == <<"skip", ZOptional(ZNumber)>>
      take == <<"take", ZOptional(ZNumber)>>
      limit == <<"limit", ZOptional(ZNumber)>>
      cursor == <<"cursor", ZOptional(uniqueWhereSchema)>>
      selectors == {<<key, ZOptional(ZAny)>> :
                      key \in {"_count", "_avg", "_sum", "_min", "_max"}}
      env(pairs) == Passthrough(ZObject(Shape(pairs)))
  IN  [findMany |-> ZOptional(env({where, select, include, orderBy, skip,
                     take, cursor,
                     <<"distinct", ZOptional(ZArray(ZString))>>})),
       findUnique |-> env({uwhere, select, include}),
       findFirst |-> ZOptional(env({where, select, include, orderBy, skip,
                      cursor})),
       create |-> env({<<"data", createDataSchema>>, select, include}),
       createMany |-> env({<<"data", ZUnion(<<createDataSchema,
                                               ZArray(createDataSchema)>>)>>,
                           <<"skipDuplicates", ZOptional(ZBoolean)>>}),
       update |-> env({uwhere, <<"data", updateDataSchema>>, select,
                       include}),
       updateMany |-> env({where, <<"data", updateDataSchema>>, limit}),
       upsert |-> env({uwhere, <<"create", createDataSchema>>,
                       <<"update", updateDataSchema>>, select, include}),
       delete |-> env({uwhere, select, include}),
       deleteMany |-> ZOptional(env({where, limit})),
       count |-> ZOptional(env({where, <<"select", ZOptional(ZAny)>>, cursor,
                  skip, take, orderBy})),
       aggregate |-> env({where, cursor, skip, take, orderBy}
                         \cup selectors),
       groupBy |-> env({<<"by", ZUnion(<<ZString, ZArray(ZString)>>)>>,
                        where, <<"having", ZOptional(ZAny)>>, orderBy, skip,
                        take} \cup selectors)]

(***************************************************************************)
(* router-generator.ts                                                     *)
(***************************************************************************)
\* String.prototype.toLowerCase on one character of a model name
ToLowerCase(ch) ==
  CASE ch = "U" -> "u"
    [] ch = "P" -> "p"
    [] ch = "T" -> "t"
    [] OTHER -> ch

\* modelName.charAt(0).toLowerCase() + modelName.slice(1)
Uncapitalize(modelName) ==
  IF modelName = <<>> THEN <<>>
  ELSE <<ToLowerCase(Head(modelName))>> \o Tail(modelName)

\* a procedure builder of the RPC framework: the middlewares put on it by .use
Procedure(middlewares) == [middlewares |-> middlewares]

\* initTRPC.context().create(): t.procedure carries no middleware
TRPCInstance == [procedure |-> Procedure(<<>>)]

\* t.procedure.use(({ ctx, next }) => { if (!ctx.user) throw UNAUTHORIZED ... })
protectedProcedure == Procedure(<<"requireUser">>)

\* variant: groupBy is not registered
ProcedureTable_NoGroupBy ==
  [findMany |-> TRUE, findUnique |-> TRUE, findFirst |-> TRUE,
   count |-> TRUE, aggregate |-> TRUE,
   create |-> FALSE, createMany |-> FALSE, update |-> FALSE,
   updateMany |-> FALSE, upsert |-> FALSE, delete |-> FALSE,
   deleteMany |-> FALSE]

\* the operations createModelProcedures registers, with createHandler's isQuery
ProcedureTable ==
  [findMany |-> TRUE, findUnique |-> TRUE, findFirst |-> TRUE,
   count |-> TRUE, aggregate |-> TRUE, groupBy |-> TRUE,
   create |-> FALSE, createMany |-> FALSE, update |-> FALSE,
   updateMany |-> FALSE, upsert |-> FALSE, delete |-> FALSE,
   deleteMany |-> FALSE]

\* variant: every endpoint is built with .query
createHandler_AlwaysQuery(op, isQuery, schemas, modelName, modelNameLower, t) ==
  [kind |-> "query",
   middlewares |-> t.procedure.middlewares,
   inputSchema |-> schemas[op],
   op |-> op,
   modelName |-> modelName,
   modelNameLower |-> modelNameLower]

\* variant: the endpoint is built without .input(inputSchema)
createHandler_NoInput(op, isQuery, schemas, modelName, modelNameLower, t) ==
  [kind |-> IF isQuery THEN "query" ELSE "mutation",
   middlewares |-> t.procedure.middlewares,
   inputSchema |-> ZAny,
   op |-> op,
   modelName |-> modelName,
   modelNameLower |-> modelNameLower]

\* variant: the handler looks the accessor up under the model's own name
createHandler_ModelNameKey(op, isQuery, schemas, modelName, modelNameLower, t) ==
  [kind |-> IF isQuery THEN "query" ELSE "mutation",
   middlewares |-> t.procedure.middlewares,
   inputSchema |-> schemas[op],
   op |-> op,
   modelName |-> modelName,
   modelNameLower |-> modelName]

\* t.procedure.input(inputSchema).query(handler) / .mutation(handler); the
\* handler closes over op, modelName and modelNameLower
createHandler(op, isQuery, schemas, modelName, modelNameLower, t) ==
  [kind |-> IF isQuery THEN "query" ELSE "mutation",
   middlewares |-> t.procedure.middlewares,
   inputSchema |-> schemas[op],
   op |-> op,
   modelName |-> modelName,
   modelNameLower |-> modelNameLower]

createModelProcedures(sch, modelName, t) ==
  LET schemas == createModelSchemas(sch, modelName)
      modelNameLower == Uncapitalize(modelName)
  IN  [op \in DOMAIN ProcedureTable |->
         createHandler(op, ProcedureTable[op], schemas, modelName,
                       modelNameLower, t)]

\* modelRouters[key] = value
Assign(record, key, value) ==
  [x \in DOMAIN record \cup {key} |-> IF x = key THEN value ELSE record[x]]

\* the for-loop of createZenStackRouter over Object.keys(schema.models)
RECURSIVE assignModelRouters(_, _, _, _)
assignModelRouters(sch, t, modelNames, modelRouters) ==
  IF modelNames = <<>> THEN modelRouters
  ELSE assignModelRouters(sch, t, Tail(modelNames),
         Assign(modelRouters, Uncapitalize(Head(modelNames)),
                createModelProcedures(sch, Head(modelNames), t)))

NoRouters == [key \in {} |-> <<>>]

createZenStackRouter(sch, t) ==
  assignModelRouters(sch, t, sch.order, NoRouters)

\* variant: the guard is only !model
OperationMissing_ModelOnly(db, modelNameLower, op) ==
  modelNameLower \notin DOMAIN db.props

\* the handler's guard: !model || typeof model[op] !== "function"
OperationMissing(db, modelNameLower, op) ==
  \/ modelNameLower \notin DOMAIN db.props
  \/ op \notin DOMAIN db.props[modelNameLower]
  \/ db.props[modelNameLower][op] # "function"

(***************************************************************************)
(* Schemas handed to the generators                                        *)
(***************************************************************************)
Field(type) ==
  [type |-> type, optional |-> FALSE, hasDefault |-> FALSE, id |-> FALSE,
   updatedAt |-> FALSE, foreignKey |-> FALSE, array |-> FALSE,
   relation |-> FALSE]
IdField(type) == [Field(type) EXCEPT !.id = TRUE, !.hasDefault = TRUE]
Unique(type) == [compound |-> FALSE, type |-> type, fields |-> <<>>]

UserName == <<"U", "s", "e", "r">>
PostName == <<"P", "o", "s", "t">>
TagName == <<"T", "a", "g">>
LowerUserName == <<"u", "s", "e", "r">>

UserModel ==
  [fields |-> [id |-> IdField("String"),
               email |-> Field("String"),
               name |-> [Field("String") EXCEPT !.optional = TRUE],
               posts |-> [Field("Post") EXCEPT !.relation = TRUE,
                                               !.array = TRUE]],
   uniqueFields |-> [id |-> Unique("String"), email |-> Unique("String")]]

PostModel ==
  [fields |-> [id |-> IdField("String"),
               title |-> Field("String"),
               published |-> [Field("Boolean") EXCEPT !.hasDefault = TRUE],
               author |-> [Field("User") EXCEPT !.relation = TRUE],
               authorId |-> [Field("String") EXCEPT !.foreignKey = TRUE]],
   uniqueFields |-> [id |-> Unique("String")]]

TagModel ==
  [fields |-> [id |-> IdField("Int"), label |-> Field("String")],
   uniqueFields |-> [id |-> Unique("Int")]]

AccountModel ==
  [fields |-> [id |-> IdField("Int"), age |-> Field("Int")],
   uniqueFields |-> [id |-> Unique("Int")]]

BlogSchema ==
  [order |-> <<UserName, PostName>>,
   models |-> [n \in {UserName, PostName} |->
                 IF n = UserName THEN UserModel ELSE PostModel]]
CatalogSchema ==
  [order |-> <<TagName, PostName>>,
   models |-> [n \in {TagName, PostName} |->
                 IF n = TagName THEN TagModel ELSE PostModel]]
ClashSchema ==
  [order |-> <<UserName, LowerUserName>>,
   models |-> [n \in {UserName, LowerUserName} |->
                 IF n = UserName THEN UserModel ELSE AccountModel]]

Schemas == {BlogSchema, CatalogSchema, ClashSchema}

(***************************************************************************)
(* Requests a caller makes                                                 *)
(***************************************************************************)
ValidData ==
  Obj([email |-> Str("a@b.com"), title |-> Str("Hello"),
       label |-> Str("news"), age |-> Num("1")])

\* accepted by every operation's validator of every model above
FullInput ==
  Obj([where |-> EmptyObj, data |-> ValidData, create |-> ValidData,
       update |-> ValidData, by |-> Str("id")])

\* rejected by every operation's validator
BadInput ==
  Obj([where |-> Str("x"), data |-> Str("x"), by |-> Num("5")])

\* a create input with a wrong-typed field
BadDataInput ==
  Obj([where |-> EmptyObj, by |-> Str("id"),
       data |-> Obj([email |-> Num("12345"), title |-> Num("1"),
                     label |-> Num("1"), age |-> Str("old")])])

\* an aggregate request with a selector that is no boolean and no object
BadSelectorInput == Obj([_count |-> Str("invalid")])

Inputs ==
  {Undef, EmptyObj, FullInput, BadInput, BadDataInput, BadSelectorInput}

Operations == DOMAIN ProcedureTable

FullAccessor == [op \in Operations |-> "function"]

\* ctx.db of a request aimed at <<key, op>>
DbOf(kind, keys, key, op) ==
  CASE kind = "ok" ->
         [present |-> TRUE, props |-> [x \in keys |-> FullAccessor]]
    [] kind = "nodb" ->
         [present |-> FALSE, props |-> [x \in {} |-> FullAccessor]]
    [] kind = "nomodel" ->
         [present |-> TRUE, props |-> [x \in keys \ {key} |-> FullAccessor]]
    [] kind = "nomethod" ->
         [present |-> TRUE,
          props |-> [x \in keys |->
                       IF x = key
                       THEN [o \in Operations \ {op} |-> "function"]
                       ELSE FullAccessor]]
    [] kind = "notfunction" ->
         [present |-> TRUE,
          props |-> [x \in keys |->
                       IF x = key
                       THEN [FullAccessor EXCEPT ![op] = "object"]
                       ELSE FullAccessor]]

Contexts(keys, key, op) ==
  {[db |-> DbOf(kind, keys, key, op), user |-> TRUE] :
     kind \in {"ok", "nodb", "nomodel", "nomethod", "notfunction"}}
  \cup {[db |-> DbOf("ok", keys, key, op), user |-> FALSE]}

\* what the external data accessor may answer
AccessorResults == {Arr(<<>>), Obj([id |-> Str("1")])}
AccessorErrors == {"UniqueConstraintViolation", "NotFound"}

NoOutcome == [kind |-> "none", code |-> "", op |-> "", model |-> <<>>,
              value |-> Undef]
Returned(value) == [NoOutcome EXCEPT !.kind = "result", !.value = value]
Thrown(kind, code) == [NoOutcome EXCEPT !.kind = kind, !.code = code]

NoContext ==
  [db |-> [present |-> FALSE, props |-> [x \in {} |-> FullAccessor]],
   user |-> FALSE]

IdleCall ==
  [pc |-> "idle", key |-> <<>>, op |-> "", input |-> Undef,
   ctx |-> NoContext, parsed |-> Undef, invoked |-> <<>>,
   answer |-> NoOutcome, outcome |-> NoOutcome]

NoProbe == [fn |-> "none", model |-> <<>>, input |-> Undef, out |-> Fail]

NoOptions == [given |-> FALSE, procedure |-> Procedure(<<>>)]
OptionsSet == {NoOptions, [given |-> TRUE, procedure |-> protectedProcedure]}

CallIds == 1..MaxCalls

(***************************************************************************)
(* The router and its endpoint invocations                                 *)
(***************************************************************************)
Init ==
  /\ schema \in Schemas
  /\ built = FALSE
  /\ options = NoOptions
  /\ router = NoRouters
  /\ calls = [c \in CallIds |-> IdleCall]
  /\ probe = NoProbe

\* const appRouter = createZenStackRouter(schema, t, options?)
CreateRouter(opts) ==
  /\ ~built
  /\ built' = TRUE
  /\ options' = opts
  /\ router' = createZenStackRouter(schema, TRPCInstance)
  /\ UNCHANGED <<schema, calls, probe>>

\* caller.<key>.<op>(input), the caller made with appRouter.createCaller(ctx)
Invoke(c) ==
  /\ built
  /\ calls[c].pc = "idle"
  /\ \E key \in DOMAIN router :
       \E op \in DOMAIN router[key], input \in Inputs :
         \E ctx \in Contexts(DOMAIN router, key, op) :
           calls' = [calls EXCEPT ![c] =
                       [IdleCall EXCEPT !.pc = "input", !.key = key,
                                        !.op = op, !.input = input,
                                        !.ctx = ctx]]
  /\ UNCHANGED <<schema, built, options, router, probe>>

\* the framework runs the base procedure's middlewares, then the input parser
ValidateInput(c) ==
  LET call == calls[c]
      endpoint == router[call.key][call.op]
      rejectedByMiddleware ==
        \E i \in DOMAIN endpoint.middlewares :
          endpoint.middlewares[i] = "requireUser" /\ ~call.ctx.user
      parsed == ZParse(endpoint.inputSchema, call.input)
  IN  /\ call.pc = "input"
      /\ calls' = [calls EXCEPT ![c] =
           IF rejectedByMiddleware
           THEN [call EXCEPT !.pc = "done",
                             !.outcome = Thrown("TRPCError", "UNAUTHORIZED")]
           ELSE IF ~parsed.ok
           THEN [call EXCEPT !.pc = "done",
                             !.outcome = Thrown("TRPCError", "BAD_REQUEST")]
           ELSE [call EXCEPT !.pc = "handler", !.parsed = parsed.v]]
      /\ UNCHANGED <<schema, built, options, router, probe>>

\* variant: the input is kept in one place shared by all invocations
Handler_SharedInput(c) ==
  LET call == calls[c]
      endpoint == router[call.key][call.op]
      db == call.ctx.db
  IN  /\ call.pc = "handler"
      /\ calls' = [calls EXCEPT ![c] =
           IF ~db.present
           THEN [call EXCEPT !.pc = "done",
                             !.outcome = Thrown("TypeError", "")]
           ELSE IF OperationMissing(db, endpoint.modelNameLower, endpoint.op)
           THEN [call EXCEPT !.pc = "done",
                   !.outcome = [Thrown("TRPCError", "INTERNAL_SERVER_ERROR")
                                  EXCEPT !.op = endpoint.op,
                                         !.model = endpoint.modelName]]
           ELSE [call EXCEPT !.pc = "awaiting",
                   !.invoked = Append(@, [key |-> endpoint.modelNameLower,
                                          op |-> endpoint.op,
                                          arg |-> calls[1].parsed])]]
      /\ UNCHANGED <<schema, built, options, router, probe>>

\* the handler up to its return: const db = ctx.db; const model = db[...]; ...
Handler(c) ==
  LET call == calls[c]
      endpoint == router[call.key][call.op]
      db == call.ctx.db
  IN  /\ call.pc = "handler"
      /\ calls' = [calls EXCEPT ![c] =
           IF ~db.present
           THEN [call EXCEPT !.pc = "done",
                             !.outcome = Thrown("TypeError", "")]
           ELSE IF OperationMissing(db, endpoint.modelNameLower, endpoint.op)
           THEN [call EXCEPT !.pc = "done",
                   !.outcome = [Thrown("TRPCError", "INTERNAL_SERVER_ERROR")
                                  EXCEPT !.op = endpoint.op,
                                         !.model = endpoint.modelName]]
           ELSE [call EXCEPT !.pc = "awaiting",
                   !.invoked = Append(@, [key |-> endpoint.modelNameLower,
                                          op |-> endpoint.op,
                                          arg |-> call.parsed])]]
      /\ UNCHANGED <<schema, built, options, router, probe>>

\* the external accessor settles the promise model[op](input) gave out
AccessorSettles(c) ==
  /\ calls[c].pc = "awaiting"
  /\ \E answer \in {Returned(v) : v \in AccessorResults}
                   \cup {Thrown("AccessorError", e) : e \in AccessorErrors} :
       calls' = [calls EXCEPT ![c] = [@ EXCEPT !.pc = "settled",
                                               !.answer = answer]]
  /\ UNCHANGED <<schema, built, options, router, probe>>

\* return model[op](input): the handler's promise takes the accessor's outcome
HandlerReturns(c) ==
  /\ calls[c].pc = "settled"
  /\ calls' = [calls EXCEPT ![c] = [@ EXCEPT !.pc = "done",
                                             !.outcome = calls[c].answer]]
  /\ UNCHANGED <<schema, built, options, router, probe>>

\* the caller takes the outcome; the slot is free for its next request
Receive(c) ==
  /\ calls[c].pc = "done"
  /\ calls' = [calls EXCEPT ![c] = IdleCall]
  /\ UNCHANGED <<schema, built, options, router, probe>>

\* one caller issuing its requests one after the other
SequentialCallers == {1}

Next ==
  \/ \E opts \in OptionsSet : CreateRouter(opts)
  \/ \E c \in SequentialCallers : Invoke(c)
  \/ \E c \in SequentialCallers : ValidateInput(c)
  \/ \E c \in SequentialCallers : Handler(c)
  \/ \E c \in SequentialCallers : AccessorSettles(c)
  \/ \E c \in SequentialCallers : HandlerReturns(c)
  \/ \E c \in SequentialCallers : Receive(c)

Spec == Init /\ [][Next]_vars

(***************************************************************************)
(* Direct use of the validator factory: createXSchema(schema, M).safeParse *)
(***************************************************************************)
ProbeName == <<"M">>

FieldTypes ==
  {"String", "Int", "Float", "BigInt", "Boolean", "DateTime", "Json",
   "Bytes", "Decimal", "Unsupported"}

FieldDefs ==
  [type : FieldTypes, optional : BOOLEAN, hasDefault : BOOLEAN,
   id : BOOLEAN, updatedAt : BOOLEAN, foreignKey : BOOLEAN,
   array : BOOLEAN, relation : BOOLEAN]

\* model M { email String @unique; f <any field definition> }
ProbeSchema(fieldDef) ==
  [order |-> <<ProbeName>>,
   models |-> [n \in {ProbeName} |->
                 [fields |-> [email |-> Field("String"), f |-> fieldDef],
                  uniqueFields |-> [email |-> Unique("String")]]]]

ProbeSchemas == {ProbeSchema(fieldDef) : fieldDef \in FieldDefs}

SeqsUpTo(S, n) == UNION {[1..m -> S] : m \in 0..n}

FieldValues ==
  {Undef, Null, Str("x"), Str("2024-01-01T00:00:00Z"), Num("1"),
   Bool("true"), BigIntV("1"), DateV("2024-01-01"), BytesV(""), EmptyObj}
  \cup {Arr(q) : q \in SeqsUpTo({Str("x"), Num("1")}, MaxArrayLen)}

\* objects over the keys email, f and extra
ProbeInputs ==
  {Obj([key \in present |-> vals[key]]) :
     present \in SUBSET {"email", "f", "extra"},
     vals \in [email : {Str("a@b.com"), Num("1")}, f : FieldValues,
               extra : {Num("7")}]}

InitV ==
  /\ schema \in ProbeSchemas
  /\ built = FALSE
  /\ options = NoOptions
  /\ router = NoRouters
  /\ calls = [c \in CallIds |-> IdleCall]
  /\ probe = NoProbe

ParseCreateData(input) ==
  /\ probe.fn = "none"
  /\ probe' = [fn |-> "createData", model |-> ProbeName, input |-> input,
               out |-> ZParse(createCreateDataSchema(schema, ProbeName),
                              input)]
  /\ UNCHANGED <<schema, built, options, router, calls>>

ParseUpdateData(input) ==
  /\ probe.fn = "none"
  /\ probe' = [fn |-> "updateData", model |-> ProbeName, input |-> input,
               out |-> ZParse(createUpdateDataSchema(schema, ProbeName),
                              input)]
  /\ UNCHANGED <<schema, built, options, router, calls>>

\* the value createData accepted for f is submitted to where: as { f: v }
\* or as { f: { equals: v } }
FilterForms == {"direct", "equals"}

ParseAcceptedValueAsFilter(form) ==
  /\ probe.fn = "createData"
  /\ probe.out.ok
  /\ probe.input.k = "obj"
  /\ "f" \in DOMAIN probe.input.f
  /\ LET v == probe.input.f["f"]
         filter == IF form = "direct" THEN Obj([f |-> v])
                   ELSE Obj([f |-> Obj([equals |-> v])])
     IN  probe' = [fn |-> "roundTrip", model |-> ProbeName, input |-> filter,
                   out |-> ZParse(createWhereSchema(schema, ProbeName),
                                  filter)]
  /\ UNCHANGED <<schema, built, options, router, calls>>

NextV ==
  \/ \E input \in ProbeInputs : ParseCreateData(input)
  \/ \E input \in ProbeInputs : ParseUpdateData(input)
  \/ \E form \in FilterForms : ParseAcceptedValueAsFilter(form)

SpecV == InitV /\ [][NextV]_vars

(***************************************************************************)
(* Direct use of the query-argument validators: where, uniqueWhere,        *)
(* select, include, orderBy and the operation envelopes                    *)
(***************************************************************************)
MaxDepth == 2

\* the query-argument validators read a field's type, array and relation
\* attributes only: the probed field f is a plain required field
QueryFieldDefs ==
  {fieldDef \in FieldDefs :
     /\ ~fieldDef.optional /\ ~fieldDef.hasDefault /\ ~fieldDef.id
     /\ ~fieldDef.updatedAt /\ ~fieldDef.foreignKey}

CompoundUnique(names) == [compound |-> TRUE, type |-> "", fields |-> names]

\* model M { email String @unique; f <field> } with f not unique, f @unique,
\* or @@unique([email, f])
QuerySchema(fieldDef, uniqueness) ==
  [order |-> <<ProbeName>>,
   models |-> [n \in {ProbeName} |->
     [fields |-> [email |-> Field("String"), f |-> fieldDef],
      uniqueFields |->
        CASE uniqueness = "single" ->
               [email |-> Unique("String"), f |-> Unique(fieldDef.type)]
          [] uniqueness = "compound" ->
               [email |-> Unique("String"),
                email_f |-> CompoundUnique(<<"email", "f">>)]
          [] OTHER -> [email |-> Unique("String")]]]]

QuerySchemas ==
  {QuerySchema(fieldDef, uniqueness) :
     fieldDef \in QueryFieldDefs, uniqueness \in {"none", "single", "compound"}}
  \ {QuerySchema(fieldDef, uniqueness) :
       fieldDef \in {d \in QueryFieldDefs : d.relation},
       uniqueness \in {"single", "compound"}}

WhereOperators ==
  {"equals", "not", "in", "notIn", "lt", "lte", "gt", "gte",
   "contains", "startsWith", "endsWith"}

\* { <operator>: <operand> }, alone or next to an unknown key
OperatorObjects ==
  {Obj([key \in {operator} |-> operand]) :
     operator \in WhereOperators, operand \in FieldValues}
  \cup {Obj([key \in {operator, "mode"} |->
               IF key = "mode" THEN Str("insensitive") ELSE operand]) :
          operator \in {"equals", "contains"},
          operand \in {Str("x"), Num("1")}}
  \cup {Obj([mode |-> Str("insensitive")])}

WhereValues == FieldValues \cup OperatorObjects

\* filters over the keys email, f and extra
FieldFilters ==
  {Obj([key \in present |-> vals[key]]) :
     present \in SUBSET {"email", "f", "extra"},
     vals \in [email : {Str("a@b.com"), Num("123")}, f : WhereValues,
               extra : {Num("7")}]}

LeafFilters ==
  {Obj([email |-> Str("a@b.com")]), Obj([email |-> Num("123")]),
   Obj([f |-> Str("x")]), Obj([f |-> Num("1")]), Obj([f |-> Bool("true")])}

\* filters nested under AND, OR and NOT, as one filter or as an array of one
RECURSIVE NestedFilters(_)
NestedFilters(depth) ==
  IF depth = 0 THEN LeafFilters
  ELSE {Obj([key \in {combinator} |->
               IF asArray THEN Arr(<<inner>>) ELSE inner]) :
          combinator \in {"AND", "OR", "NOT"}, asArray \in BOOLEAN,
          inner \in NestedFilters(depth - 1)}

WhereInputs ==
  FieldFilters \cup UNION {NestedFilters(depth) : depth \in 1..MaxDepth}

InitQ ==
  /\ schema \in QuerySchemas
  /\ built = FALSE
  /\ options = NoOptions
  /\ router = NoRouters
  /\ calls = [c \in CallIds |-> IdleCall]
  /\ probe = NoProbe

ParseWhere(input) ==
  /\ probe.fn = "none"
  /\ probe' = [fn |-> "where", model |-> ProbeName, input |-> input,
               out |-> ZParse(createWhereSchema(schema, ProbeName), input)]
  /\ UNCHANGED <<schema, built, options, router, calls>>

\* unique lookups: by field, by the compound key email_f, or no object at all
UniqueWhereInputs ==
  ProbeInputs
  \cup {Obj([key \in {"email_f"} \cup more |->
               IF key = "email_f" THEN components ELSE Num("7")]) :
          components \in ProbeInputs \cup {Str("x"), Null},
          more \in {{}, {"extra"}}}
  \cup {Undef, Null, Str("invalid")}

ParseUniqueWhere(input) ==
  /\ probe.fn = "none"
  /\ probe' = [fn |-> "uniqueWhere", model |-> ProbeName, input |-> input,
               out |-> ZParse(createUniqueWhereSchema(schema, ProbeName),
                              input)]
  /\ UNCHANGED <<schema, built, options, router, calls>>

\* selections over the keys email, f and extra: a flag, nested options, or a
\* value of another kind; or no object at all
SelectionInputs ==
  {Obj([key \in present |-> vals[key]]) :
     present \in SUBSET {"email", "f", "extra"},
     vals \in [{"email", "f", "extra"} ->
                 {Bool("true"), Bool("false"), Str("yes"),
                  Obj([where |-> Obj([published |-> Bool("true")])])}]}
  \cup {Undef, Null, Str("invalid"), Arr(<<>>)}

ParseSelect(input) ==
  /\ probe.fn = "none"
  /\ probe' = [fn |-> "select", model |-> ProbeName, input |-> input,
               out |-> ZParse(createSelectSchema(schema, ProbeName), input)]
  /\ UNCHANGED <<schema, built, options, router, calls>>

ParseInclude(input) ==
  /\ probe.fn = "none"
  /\ probe' = [fn |-> "include", model |-> ProbeName, input |-> input,
               out |-> ZParse(createIncludeSchema(schema, ProbeName), input)]
  /\ UNCHANGED <<schema, built, options, router, calls>>

\* orderings over the keys email, f and extra, alone or in an array
SortValues == {Str("asc"), Str("desc"), Str("ascending"), Num("1")}

OrderingObjects ==
  {Obj([key \in present |-> vals[key]]) :
     present \in SUBSET {"email", "f", "extra"},
     vals \in [{"email", "f", "extra"} -> SortValues]}

OrderByInputs ==
  OrderingObjects
  \cup {Arr(q) :
          q \in SeqsUpTo({Obj([key \in {name} |-> order]) :
                            name \in {"email", "f"}, order \in SortValues}
                         \cup {EmptyObj}, MaxArrayLen)}
  \cup {Undef, Null, Str("asc")}

ParseOrderBy(input) ==
  /\ probe.fn = "none"
  /\ probe' = [fn |-> "orderBy", model |-> ProbeName, input |-> input,
               out |-> ZParse(createOrderBySchema(schema, ProbeName), input)]
  /\ UNCHANGED <<schema, built, options, router, calls>>

NextQ ==
  \/ \E input \in WhereInputs : ParseWhere(input)
  \/ \E input \in UniqueWhereInputs : ParseUniqueWhere(input)
  \/ \E input \in SelectionInputs : ParseSelect(input)
  \/ \E input \in SelectionInputs : ParseInclude(input)
  \/ \E input \in OrderByInputs : ParseOrderBy(input)

SpecQ == InitQ /\ [][NextQ]_vars

\* the envelopes read the field definitions through the argument validators
\* only: f is a String, Int or Json field, a list or a relation of these
EnvelopeSchemas ==
  {sch \in QuerySchemas :
     sch.models[ProbeName].fields["f"].type \in {"String", "Int", "Json"}}

InitO ==
  /\ schema \in EnvelopeSchemas
  /\ built = FALSE
  /\ options = NoOptions
  /\ router = NoRouters
  /\ calls = [c \in CallIds |-> IdleCall]
  /\ probe = NoProbe

\* a model name that is no key of schema.models
AbsentName == <<"N">>

EmailFilter == Obj([email |-> Str("a@b.com")])

NewRow == Obj([email |-> Str("a@b.com"), f |-> Str("x")])

NewRelatedRow ==
  Obj([email |-> Str("a@b.com"),
       f |-> Obj([create |-> Obj([title |-> Str("t")])])])

\* envelopes over every subset of the keys where, data, create, update, by
KeyedEnvelopes ==
  {Obj([key \in present |->
          CASE key = "where" -> EmailFilter
            [] key = "by" -> Str("email")
            [] key = "update" -> EmailFilter
            [] OTHER -> row]) :
     present \in SUBSET {"where", "data", "create", "update", "by"},
     row \in {NewRow, NewRelatedRow}}

\* envelopes with nested arguments at every level
NestedEnvelopes ==
  {Obj([where |-> Obj([email |-> Obj([contains |-> Str("a")])]),
        select |-> Obj([email |-> Bool("true")]),
        include |-> Obj([f |-> Bool("true")]),
        orderBy |-> ordering, by |-> Str("email")]) :
     ordering \in {Obj([email |-> Str("asc")]),
                   Arr(<<Obj([email |-> Str("desc")])>>)}}
  \cup {Obj([where |-> Obj([email_f |-> NewRow]), data |-> row,
             create |-> row, update |-> row]) :
          row \in {NewRow, NewRelatedRow}}
  \cup {Obj([where |-> Obj([email |-> BytesV("")])]),
        Obj([where |-> Obj([f |-> BytesV("")])])}

Selectors == {"_count", "_avg", "_sum", "_min", "_max"}

SelectorValues ==
  {Undef, Null, Bool("true"), Str("invalid"), Num("1"),
   Obj([email |-> Bool("true")]), Arr(<<Str("email")>>)}

\* aggregation requests: by and one selector, or all selectors and no by
SelectorEnvelopes ==
  {Obj([key \in {selector, "by"} |->
          IF key = "by" THEN Str("email") ELSE value]) :
     selector \in Selectors, value \in SelectorValues}
  \cup {Obj([key \in Selectors |-> value]) : value \in SelectorValues}

\* the where argument of a lookup by unique key: no key, a null or
\* wrong-typed key, or no object at all
UniqueLookups ==
  {EmptyObj, Null, Str("invalid"), Obj([email |-> Null]),
   Obj([email |-> Num("123")]), Obj([f |-> Null])}

\* lookups alone, and lookups with the rows that update and upsert require
UniqueLookupEnvelopes ==
  {Obj([where |-> lookup]) : lookup \in UniqueLookups}
  \cup {Obj([where |-> lookup, data |-> EmailFilter, create |-> row,
             update |-> EmailFilter]) :
          lookup \in UniqueLookups, row \in {NewRow, NewRelatedRow}}

EnvelopeInputs ==
  KeyedEnvelopes \cup NestedEnvelopes \cup SelectorEnvelopes
  \cup UniqueLookupEnvelopes \cup {Undef, Null, Str("invalid")}

UnknownKey == "unknownKey"

\* the values obtained by adding one unknown key to one object nested in v
RECURSIVE WithUnknownKey(_)
WithUnknownKey(v) ==
  CASE v.k = "obj" ->
         {Obj([key \in DOMAIN v.f \cup {UnknownKey} |->
                 IF key = UnknownKey THEN Num("7") ELSE v.f[key]])}
         \cup UNION {{Obj([v.f EXCEPT ![key] = w]) :
                        w \in WithUnknownKey(v.f[key])} : key \in DOMAIN v.f}
    [] v.k = "arr" ->
         UNION {{Arr([v.s EXCEPT ![i] = w]) : w \in WithUnknownKey(v.s[i])} :
                  i \in DOMAIN v.s}
    [] OTHER -> {}

RECURSIVE HasUnknownKey(_)
HasUnknownKey(v) ==
  CASE v.k = "obj" ->
         UnknownKey \in DOMAIN v.f
         \/ \E key \in DOMAIN v.f : HasUnknownKey(v.f[key])
    [] v.k = "arr" -> \E i \in DOMAIN v.s : HasUnknownKey(v.s[i])
    [] OTHER -> FALSE

\* createModelSchemas(schema, modelName)[op].safeParse(input)
ParseOperation(op, modelName, input) ==
  /\ probe.fn = "none"
  /\ probe' = [fn |-> op, model |-> modelName, input |-> input,
               out |-> ZParse(createModelSchemas(schema, modelName)[op],
                              input)]
  /\ UNCHANGED <<schema, built, options, router, calls>>

\* an accepted input is submitted again with one more, unknown, key
ParseWithUnknownKey(input) ==
  /\ probe.fn \in Operations
  /\ probe.out.ok
  /\ ~HasUnknownKey(probe.input)
  /\ probe' = [probe EXCEPT
       !.input = input,
       !.out = ZParse(createModelSchemas(schema, probe.model)[probe.fn],
                      input)]
  /\ UNCHANGED <<schema, built, options, router, calls>>

\* requests that violate their validator at two places at once
IssueInputs ==
  {Obj([data |-> Obj([email |-> email, f |-> value])]) :
     email \in {Str("a@b.com"), Num("12345")},
     value \in {Str("x"), Num("1"), Bool("true"), Null}}
  \cup {Obj([skip |-> skip, take |-> take]) :
          skip \in {Num("10"), Str("10")}, take \in {Num("5"), Str("5")}}

\* createModelSchemas(schema, M)[op].safeParse(input): the framework puts
\* the ZodError in the cause of the BAD_REQUEST error
SafeParseOperation(op, input) ==
  /\ probe.fn = "none"
  /\ probe' = [fn |-> op, model |-> ProbeName, input |-> input,
               out |-> SafeParse(createModelSchemas(schema, ProbeName)[op],
                                 input)]
  /\ UNCHANGED <<schema, built, options, router, calls>>

NextO ==
  \/ \E op \in Operations, modelName \in {ProbeName, AbsentName},
        input \in EnvelopeInputs : ParseOperation(op, modelName, input)
  \/ \E input \in WithUnknownKey(probe.input) : ParseWithUnknownKey(input)
  \/ \E op \in Operations, input \in IssueInputs :
       SafeParseOperation(op, input)

SpecO == InitO /\ [][NextO]_vars

(***************************************************************************)
(* Concurrent invocations on one built router                              *)
(***************************************************************************)
\* the requests the concurrent callers choose from
ConcurrentRequests ==
  {[key |-> LowerUserName, op |-> op, input |-> input,
    ctx |-> [db |-> DbOf(kind, {LowerUserName, Uncapitalize(PostName)},
                         LowerUserName, op),
             user |-> TRUE]] :
     op \in {"findMany", "create"}, input \in {FullInput, BadInput, EmptyObj},
     kind \in {"ok", "nomodel"}}

\* const appRouter = createZenStackRouter(schema, t) has been evaluated
InitC ==
  /\ schema = BlogSchema
  /\ built = TRUE
  /\ options = NoOptions
  /\ router = createZenStackRouter(BlogSchema, TRPCInstance)
  /\ calls = [c \in CallIds |-> IdleCall]
  /\ probe = NoProbe

\* a caller of its own, made with appRouter.createCaller(ctx), calls an endpoint
InvokeRequest(c, request) ==
  /\ built
  /\ calls[c].pc = "idle"
  /\ request.key \in DOMAIN router
  /\ request.op \in DOMAIN router[request.key]
  /\ calls' = [calls EXCEPT ![c] =
                 [IdleCall EXCEPT !.pc = "input", !.key = request.key,
                                  !.op = request.op, !.input = request.input,
                                  !.ctx = request.ctx]]
  /\ UNCHANGED <<schema, built, options, router, probe>>

NextC ==
  \/ \E c \in CallIds, request \in ConcurrentRequests :
       InvokeRequest(c, request)
  \/ \E c \in CallIds : ValidateInput(c)
  \/ \E c \in CallIds : Handler(c)
  \/ \E c \in CallIds : AccessorSettles(c)
  \/ \E c \in CallIds : HandlerReturns(c)
  \/ \E c \in CallIds : Receive(c)

SpecC == InitC /\ [][NextC]_vars

(***************************************************************************)
(* Properties                                                              *)
(***************************************************************************)
\* operations.ts, OperationArgs: the 13 canonical operations
CanonicalOperations ==
  {"findMany", "findUnique", "findFirst", "create", "createMany", "update",
   "updateMany", "upsert", "delete", "deleteMany", "count", "aggregate",
   "groupBy"}

\* operations.ts, MutationOps
MutationOps ==
  {"create", "createMany", "update", "updateMany", "upsert", "delete",
   "deleteMany"}

HasRelations(model) ==
  \E fieldName \in DOMAIN model.fields : model.fields[fieldName].relation

\* the invocations that have been made
Started == {c \in CallIds : calls[c].pc # "idle"}

\* the validator the factory generates for the operation an invocation targets
ValidatorOf(call) ==
  createModelSchemas(schema, router[call.key][call.op].modelName)[call.op]

\* the model is the only one of the schema with its sub-router key
OwnsKey(M) ==
  \A M2 \in DOMAIN schema.models :
    Uncapitalize(M2) = Uncapitalize(M) => M2 = M

\* C1: every model of the schema has a sub-router under its key, the router
\* has no other sub-router, every sub-router's endpoint keys are exactly the
\* 13 canonical operations, each keying the endpoint of that operation (of
\* that model, and with that model's validator, when the key is the model's
\* alone), and the keys of createModelSchemas(schema, M) are the same 13,
\* for models with and without relation fields.
C1_ThirteenOperationsPerModel ==
  /\ \A M \in DOMAIN schema.models :
       DOMAIN createModelSchemas(schema, M) = CanonicalOperations
  /\ built =>
       /\ DOMAIN router = {Uncapitalize(M) : M \in DOMAIN schema.models}
       /\ \A M \in DOMAIN schema.models :
            /\ DOMAIN router[Uncapitalize(M)] = CanonicalOperations
            /\ Cardinality(DOMAIN router[Uncapitalize(M)]) = 13
            /\ \A op \in CanonicalOperations :
                 /\ router[Uncapitalize(M)][op].op = op
                 /\ OwnsKey(M) =>
                      /\ router[Uncapitalize(M)][op].modelName = M
                      /\ router[Uncapitalize(M)][op].inputSchema =
                           createModelSchemas(schema, M)[op]

C1_Witness ==
  /\ built
  /\ \E M1, M2 \in DOMAIN schema.models :
       /\ HasRelations(schema.models[M1])
       /\ ~HasRelations(schema.models[M2])
       /\ Uncapitalize(M1) # Uncapitalize(M2)
       /\ DOMAIN router[Uncapitalize(M1)] = CanonicalOperations
       /\ DOMAIN router[Uncapitalize(M2)] = CanonicalOperations

\* C2: findMany, findUnique, findFirst, count, aggregate and groupBy are
\* built as query endpoints and the seven MutationOps as mutation endpoints,
\* for every model.
C2_EndpointKinds ==
  built =>
    \A key \in DOMAIN router :
      \A op \in DOMAIN router[key] :
        router[key][op].kind =
          IF op \in MutationOps THEN "mutation" ELSE "query"

C2_Witness ==
  /\ built
  /\ \E key \in DOMAIN router :
       /\ router[key]["count"].kind = "query"
       /\ router[key]["groupBy"].kind = "query"
       /\ router[key]["upsert"].kind = "mutation"
       /\ router[key]["deleteMany"].kind = "mutation"

\* C3: an invocation whose input fails the operation's generated validator
\* never reaches the handler, invokes no accessor method, and ends with a
\* TRPCError of code BAD_REQUEST.
C3_ValidationBeforeDispatch ==
  \A c \in Started :
    ~Accepts(ValidatorOf(calls[c]), calls[c].input) =>
      /\ calls[c].pc \in {"input", "done"}
      /\ calls[c].invoked = <<>>
      /\ calls[c].pc = "done" =>
           calls[c].outcome = Thrown("TRPCError", "BAD_REQUEST")

C3_Witness ==
  \E c \in Started :
    /\ ~Accepts(ValidatorOf(calls[c]), calls[c].input)
    /\ calls[c].ctx.db.present
    /\ ~OperationMissing(calls[c].ctx.db, calls[c].key, calls[c].op)
    /\ calls[c].pc = "done"
    /\ calls[c].outcome.code = "BAD_REQUEST"

\* the property of ctx.db for the invocation's model is absent, or it has no
\* function under the operation's name
AccessorLacksOperation(call) ==
  \/ call.key \notin DOMAIN call.ctx.db.props
  \/ call.op \notin DOMAIN call.ctx.db.props[call.key]
  \/ call.ctx.db.props[call.key][call.op] # "function"

\* C4: with validator-accepted input and a context accessor that lacks the
\* model's property or the operation's function, the invocation rejects with
\* a TRPCError of code INTERNAL_SERVER_ERROR naming the operation and the
\* model, returns no result and invokes no accessor method.
C4_ConfigurationError ==
  \A c \in Started :
    (/\ Accepts(ValidatorOf(calls[c]), calls[c].input)
     /\ calls[c].ctx.db.present
     /\ AccessorLacksOperation(calls[c])) =>
      /\ calls[c].pc \in {"input", "handler", "done"}
      /\ calls[c].invoked = <<>>
      /\ calls[c].pc = "done" =>
           /\ calls[c].outcome.kind = "TRPCError"
           /\ calls[c].outcome.code = "INTERNAL_SERVER_ERROR"
           /\ calls[c].outcome.code # "BAD_REQUEST"
           /\ calls[c].outcome.op = calls[c].op
           /\ Uncapitalize(calls[c].outcome.model) = calls[c].key
           /\ calls[c].outcome.value = Undef

C4_Witness ==
  \E c \in Started :
    /\ Accepts(ValidatorOf(calls[c]), calls[c].input)
    /\ calls[c].ctx.db.present
    /\ calls[c].key \in DOMAIN calls[c].ctx.db.props
    /\ calls[c].op \in DOMAIN calls[c].ctx.db.props[calls[c].key]
    /\ calls[c].ctx.db.props[calls[c].key][calls[c].op] # "function"
    /\ calls[c].pc = "done"
    /\ calls[c].outcome.code = "INTERNAL_SERVER_ERROR"

\* C5: with validator-accepted input and an accessor exposing the operation
\* for the model, the endpoint invokes exactly that method, once, with the
\* caller's input, and the invocation's outcome is the accessor's outcome,
\* result or failure, unchanged.
C5_DispatchAndPassThrough ==
  \A c \in Started :
    (/\ Accepts(ValidatorOf(calls[c]), calls[c].input)
     /\ calls[c].ctx.db.present
     /\ ~AccessorLacksOperation(calls[c])) =>
      /\ calls[c].pc \in {"awaiting", "settled", "done"} =>
           calls[c].invoked = <<[key |-> calls[c].key, op |-> calls[c].op,
                                 arg |-> calls[c].input]>>
      /\ calls[c].pc = "done" =>
           /\ calls[c].outcome = calls[c].answer
           /\ calls[c].outcome.kind \in {"result", "AccessorError"}

C5_Witness ==
  \E c \in Started :
    /\ Accepts(ValidatorOf(calls[c]), calls[c].input)
    /\ calls[c].input.k = "obj"
    /\ ~AccessorLacksOperation(calls[c])
    /\ calls[c].pc = "done"
    /\ calls[c].outcome = Thrown("AccessorError", "NotFound")
    /\ Len(calls[c].invoked) = 1

\* C6: when the router was created with options { procedure: P }, P's
\* middleware guards every endpoint: an invocation whose context has no user
\* fails with UNAUTHORIZED and never reaches the accessor.
C6_BaseProcedureOverride ==
  \A c \in Started :
    (/\ options.given
     /\ \E i \in DOMAIN options.procedure.middlewares :
          options.procedure.middlewares[i] = "requireUser"
     /\ ~calls[c].ctx.user) =>
      /\ calls[c].pc \in {"input", "done"}
      /\ calls[c].invoked = <<>>
      /\ calls[c].pc = "done" =>
           calls[c].outcome = Thrown("TRPCError", "UNAUTHORIZED")

(***************************************************************************)
(* Properties of the validator factory, on model M { email, f }            *)
(***************************************************************************)
ProbedField == schema.models[ProbeName].fields["f"]

Supplies(input, key) == input.k = "obj" /\ key \in DOMAIN input.f
Omits(input, key) == input.k = "obj" /\ key \notin DOMAIN input.f

\* the required String field email carries a string
EmailValidForCreate(input) ==
  Supplies(input, "email") /\ input.f["email"].k = "str"

\* the field email is left out or carries a string
EmailValidForUpdate(input) ==
  Omits(input, "email") \/ input.f["email"].k = "str"

OptionalInCreate(fieldDef) ==
  \/ fieldDef.optional
  \/ fieldDef.hasDefault
  \/ fieldDef.id
  \/ fieldDef.updatedAt
  \/ fieldDef.foreignKey

\* a value of the field's declared type
ScalarConforms(type, v) ==
  CASE type = "String" -> v.k = "str"
    [] type = "Int" -> v.k = "num"
    [] type = "Float" -> v.k = "num"
    [] type = "BigInt" -> v.k = "bigint"
    [] type = "Boolean" -> v.k = "bool"
    [] type = "DateTime" ->
         v.k = "date" \/ (v.k = "str" /\ v.a \in DatetimeStrings)
    [] type = "Bytes" -> v.k = "bytes"
    [] type = "Decimal" -> v.k \in {"num", "str"}
    [] OTHER -> TRUE

Conforms(fieldDef, v) ==
  IF fieldDef.array
  THEN v.k = "arr" /\ \A i \in DOMAIN v.s : ScalarConforms(fieldDef.type, v.s[i])
  ELSE ScalarConforms(fieldDef.type, v)

UpdateShape == createUpdateDataSchema(schema, ProbeName).shape

\* C7: for a non-relation field f that is optional, has a default, is an
\* identifier, an auto-updated timestamp or a foreign key, createData accepts
\* an input that omits f when the other fields are valid.
C7_CreateAcceptsOmission ==
  (/\ probe.fn = "createData"
   /\ ~ProbedField.relation
   /\ OptionalInCreate(ProbedField)
   /\ Omits(probe.input, "f")
   /\ EmailValidForCreate(probe.input)) => probe.out.ok

C7_Witness ==
  /\ probe.fn = "createData"
  /\ ProbedField = [Field("Bytes") EXCEPT !.foreignKey = TRUE, !.array = TRUE]
  /\ Omits(probe.input, "f")
  /\ EmailValidForCreate(probe.input)
  /\ probe.out.ok

\* C8: for a non-relation field f of any type tag, createData accepts an
\* input omitting f if and only if f is optional, has a default, is an
\* identifier, an auto-updated timestamp or a foreign key.
C8_CreateOmissionIffOptional ==
  (/\ probe.fn = "createData"
   /\ ~ProbedField.relation
   /\ Omits(probe.input, "f")
   /\ EmailValidForCreate(probe.input)) =>
     (probe.out.ok <=> OptionalInCreate(ProbedField))

\* C9: an identifier field f has no entry in the updateData shape: update
\* data is accepted whether f is omitted or supplied, and a supplied value of
\* any type comes out of the validator as it went in.
C9_UpdateSkipsIdentifiers ==
  ProbedField.id =>
    /\ "f" \notin DOMAIN UpdateShape
    /\ (probe.fn = "updateData" /\ EmailValidForUpdate(probe.input)) =>
         /\ probe.out.ok
         /\ Supplies(probe.input, "f") =>
              /\ Supplies(probe.out.v, "f")
              /\ probe.out.v.f["f"] = probe.input.f["f"]

C9_Witness ==
  /\ probe.fn = "updateData"
  /\ ProbedField = IdField("String")
  /\ Supplies(probe.input, "f")
  /\ probe.input.f["f"] = Num("1")
  /\ probe.out.ok
  /\ probe.out.v.f["f"] = Num("1")

\* C10 as claimed: fields with a default and auto-updated timestamps have no
\* entry in the updateData shape, so a value supplied for one is not checked.
C10_DefaultsExcludedFromUpdate ==
  (ProbedField.hasDefault \/ ProbedField.updatedAt) =>
    /\ "f" \notin DOMAIN UpdateShape
    /\ (probe.fn = "updateData" /\ EmailValidForUpdate(probe.input)) =>
         probe.out.ok

\* C10 as amended: only identifier fields are left out of the updateData
\* shape; a non-identifier, non-relation field with a default or an
\* auto-updated timestamp is in the shape and a value supplied for it is
\* accepted exactly when it is undefined, null or of the field's type.
C10_OnlyIdentifiersExcludedFromUpdate ==
  /\ "f" \notin DOMAIN UpdateShape <=> ProbedField.id
  /\ (/\ probe.fn = "updateData"
      /\ ProbedField.hasDefault \/ ProbedField.updatedAt
      /\ ~ProbedField.id
      /\ ~ProbedField.relation
      /\ EmailValidForUpdate(probe.input)
      /\ Supplies(probe.input, "f")) =>
       (probe.out.ok <=>
          \/ probe.input.f["f"] \in {Undef, Null}
          \/ Conforms(ProbedField, probe.input.f["f"]))

C10_Witness ==
  /\ probe.fn = "updateData"
  /\ ProbedField = [Field("Boolean") EXCEPT !.hasDefault = TRUE]
  /\ EmailValidForUpdate(probe.input)
  /\ Supplies(probe.input, "f")
  /\ probe.input.f["f"] = Str("x")
  /\ ~probe.out.ok

\* a where filter value: nothing, null, a value of the field's type tag, or an
\* object whose operators carry operands of the operator's type
OperandConforms(type, operator, operand) ==
  CASE operator \in {"equals", "not"} ->
         operand.k \in {"undef", "null"} \/ ScalarConforms(type, operand)
    [] operator \in {"in", "notIn"} ->
         \/ operand.k = "undef"
         \/ /\ operand.k = "arr"
            /\ \A i \in DOMAIN operand.s : ScalarConforms(type, operand.s[i])
    [] operator \in {"lt", "lte", "gt", "gte"} ->
         operand.k = "undef" \/ ScalarConforms(type, operand)
    [] operator \in {"contains", "startsWith", "endsWith"} ->
         operand.k \in {"undef", "str"}
    [] OTHER -> TRUE

FilterConforms(type, v) ==
  \/ v.k \in {"undef", "null"}
  \/ ScalarConforms(type, v)
  \/ v.k = "bytes"
  \/ /\ v.k = "obj"
     /\ \A key \in DOMAIN v.f : OperandConforms(type, key, v.f[key])

IsFieldFilter(input) ==
  input.k = "obj" /\ DOMAIN input.f \subseteq {"email", "f", "extra"}

RECURSIVE HasWrongTypedFilter(_)
HasWrongTypedFilter(v) ==
  /\ v.k = "obj"
  /\ \E key \in DOMAIN v.f :
       CASE key \in {"AND", "OR", "NOT"} ->
              IF v.f[key].k = "arr"
              THEN \E i \in DOMAIN v.f[key].s :
                     HasWrongTypedFilter(v.f[key].s[i])
              ELSE HasWrongTypedFilter(v.f[key])
         [] key = "email" -> ~FilterConforms("String", v.f[key])
         [] key = "f" ->
              ~ProbedField.relation /\ ~FilterConforms(ProbedField.type, v.f[key])
         [] OTHER -> FALSE

\* C12: a wrong-typed scalar filter is rejected at every nesting depth of
\* AND, OR and NOT.
C12_NestedFiltersRejected ==
  (probe.fn = "where" /\ HasWrongTypedFilter(probe.input)) => ~probe.out.ok

UniqueFields == schema.models[ProbeName].uniqueFields

ModelFields == schema.models[ProbeName].fields

\* the value an object gives to a key, undefined when the key is missing
Get(v, key) == IF v.k = "obj" /\ key \in DOMAIN v.f THEN v.f[key] ELSE Undef

IsObject(v) == v.k \in {"obj", "bytes"}

\* a value for a declared unique constraint: nothing, or for a simple
\* constraint null or a value of the field's type tag, for a compound constraint
\* an object giving every component a value of its field's type
UniqueConforms(def, v) ==
  IF def.compound
  THEN \/ v.k = "undef"
       \/ /\ IsObject(v)
          /\ \A i \in DOMAIN def.fields :
               Conforms(ModelFields[def.fields[i]], Get(v, def.fields[i]))
  ELSE v.k \in {"undef", "null"} \/ ScalarConforms(def.type, v)

\* C13: createUniqueWhereSchema accepts an object keyed by a declared unique
\* constraint and rejects an object whose key is a field that is not unique.
C13_UniqueWhereKeys ==
  probe.fn = "uniqueWhere" =>
    /\ (/\ probe.input.k = "obj"
        /\ \A key \in DOMAIN UniqueFields :
             UniqueConforms(UniqueFields[key], Get(probe.input, key))
        /\ \A key \in DOMAIN probe.input.f : key \in DOMAIN UniqueFields)
         => probe.out.ok
    /\ (\E key \in DOMAIN ModelFields \ DOMAIN UniqueFields :
          Supplies(probe.input, key))
         => ~probe.out.ok

\* C13 (amended): createUniqueWhereSchema accepts exactly the objects that
\* give every declared unique constraint nothing or a value of its type; a key
\* that is not a unique constraint, a non-unique field included, passes
\* through unchecked.
C13_UniqueWhereTypes ==
  probe.fn = "uniqueWhere" =>
    (probe.out.ok <=>
       /\ IsObject(probe.input)
       /\ \A key \in DOMAIN UniqueFields :
            UniqueConforms(UniqueFields[key], Get(probe.input, key)))

C13_Witness ==
  /\ probe.fn = "uniqueWhere"
  /\ "f" \notin DOMAIN UniqueFields
  /\ probe.input = Obj([f |-> Str("x")])
  /\ probe.out.ok

\* C14: createIncludeSchema accepts { r: true } for every relation field r
\* and rejects { f: true } for every field f that is not a relation.
C14_IncludeRelationsOnly ==
  probe.fn = "include" =>
    \A key \in DOMAIN ModelFields :
      probe.input = Obj([k \in {key} |-> Bool("true")])
        => (probe.out.ok <=> ModelFields[key].relation)

\* C14 (amended): createIncludeSchema accepts undefined and every object:
\* { r: true } for a relation field r, and { f: true } for any other field f
\* too, whose key passes through unchecked.
C14_IncludeAnyObject ==
  probe.fn = "include" =>
    (probe.out.ok <=> (probe.input.k = "undef" \/ IsObject(probe.input)))

C14_Witness ==
  /\ probe.fn = "include"
  /\ ~ProbedField.relation
  /\ probe.input = Obj([f |-> Bool("true")])
  /\ probe.out.ok

\* C15: unknown keys are tolerated at every object level of every generated
\* validator: an accepted input stays accepted when an unknown key is added
\* to any object nested in it.
C15_UnknownKeysTolerated ==
  (probe.fn \in Operations /\ HasUnknownKey(probe.input)) => probe.out.ok

C15_Witness ==
  /\ probe.fn = "upsert"
  /\ probe.model = ProbeName
  /\ probe.input.k = "obj"
  /\ "where" \in DOMAIN probe.input.f
  /\ Get(probe.input.f["where"], "email_f").k = "obj"
  /\ UnknownKey \in DOMAIN probe.input.f["where"].f["email_f"].f
  /\ "email_f" \in DOMAIN UniqueFields
  /\ probe.out.ok

\* C16: for a model name absent from the schema, every input accepted by an
\* operation validator of the present model is accepted by the absent model's
\* validator of the same operation.
C16_AbsentModelPermissive ==
  (/\ probe.fn \in Operations
   /\ probe.model = AbsentName
   /\ Accepts(createModelSchemas(schema, ProbeName)[probe.fn], probe.input))
    => probe.out.ok

\* the keys an operation's envelope requires
RequiredKeys(op) ==
  CASE op \in {"findUnique", "delete"} -> {"where"}
    [] op \in {"create", "createMany", "updateMany"} -> {"data"}
    [] op = "update" -> {"where", "data"}
    [] op = "upsert" -> {"where", "create", "update"}
    [] op = "groupBy" -> {"by"}
    [] OTHER -> {}

OptionalEnvelopes == {"findMany", "findFirst", "deleteMany", "count"}

\* C17: an operation validator rejects an object that misses a key its
\* envelope requires, and accepts undefined exactly for findMany, findFirst,
\* deleteMany and count.
C17_EnvelopeEnforced ==
  probe.fn \in Operations =>
    /\ (probe.input.k = "obj"
        /\ \E key \in RequiredKeys(probe.fn) : key \notin DOMAIN probe.input.f)
         => ~probe.out.ok
    /\ probe.input = Undef => (probe.out.ok <=> probe.fn \in OptionalEnvelopes)

C17_Witness ==
  /\ probe.fn = "upsert"
  /\ probe.model = ProbeName
  /\ probe.input = Obj([where |-> EmailFilter, create |-> NewRow])
  /\ ProbedField = Field("String")
  /\ ~probe.out.ok

\* C18: a value that createData accepts for a required scalar field f, of any
\* type tag, list or not, is accepted by where as { f: v } and as
\* { f: { equals: v } }.
C18_CreateValueFilters ==
  (probe.fn = "roundTrip" /\ ~ProbedField.relation /\ ~ProbedField.optional)
    => probe.out.ok

\* an ordering object: every scalar field it names is given "asc" or "desc"
OrderingConforms(v) ==
  /\ IsObject(v)
  /\ \A key \in DOMAIN ModelFields :
       ModelFields[key].relation
       \/ Get(v, key) \in {Undef, Str("asc"), Str("desc")}

\* C20: createOrderBySchema accepts undefined, one ordering object or an array
\* of ordering objects; a scalar field takes only "asc" and "desc", in both
\* forms; relation fields are not part of the shape.
C20_OrderByDirections ==
  probe.fn = "orderBy" =>
    (probe.out.ok <=>
       \/ probe.input.k = "undef"
       \/ OrderingConforms(probe.input)
       \/ /\ probe.input.k = "arr"
          /\ \A i \in DOMAIN probe.input.s : OrderingConforms(probe.input.s[i]))

C20_Witness ==
  /\ probe.fn = "orderBy"
  /\ ~ProbedField.relation
  /\ probe.input = Arr(<<Obj([f |-> Str("ascending")])>>)
  /\ ~probe.out.ok

HasBadSelector(call) ==
  /\ call.op = "aggregate"
  /\ call.input.k = "obj"
  /\ "_count" \in DOMAIN call.input.f
  /\ call.input.f["_count"].k \notin {"undef", "bool", "obj"}

Reported == probe.out.issues

\* the field of data carries a value that is not of the field's type
ViolatesField(data, key) ==
  /\ Supplies(data, key)
  /\ ~ModelFields[key].relation
  /\ data.f[key].k # "undef"
  /\ ~Conforms(ModelFields[key], data.f[key])

OutcomeOf(call) ==
  IF ~Accepts(ValidatorOf(call), call.input)
  THEN Thrown("TRPCError", "BAD_REQUEST")
  ELSE IF ~call.ctx.db.present THEN Thrown("TypeError", "")
  ELSE IF AccessorLacksOperation(call)
  THEN [Thrown("TRPCError", "INTERNAL_SERVER_ERROR")
          EXCEPT !.op = call.op,
                 !.model = router[call.key][call.op].modelName]
  ELSE call.answer

\* an invocation's next step can be taken whatever the other invocations do
NeverBlocked ==
  \A c \in CallIds :
    /\ calls[c].pc = "input" => ENABLED ValidateInput(c)
    /\ calls[c].pc = "handler" => ENABLED Handler(c)
    /\ calls[c].pc = "awaiting" => ENABLED AccessorSettles(c)
    /\ calls[c].pc = "settled" => ENABLED HandlerReturns(c)
    /\ calls[c].pc = "done" => ENABLED Receive(c)

OwnInputAndOutcome ==
  \A c \in Started :
    /\ calls[c].invoked \in
         {<<>>, <<[key |-> calls[c].key, op |-> calls[c].op,
                   arg |-> calls[c].input]>>}
    /\ calls[c].pc = "done" => calls[c].outcome = OutcomeOf(calls[c])

\* a step changes one invocation at most, and never the router
OneInvocationPerStep ==
  /\ router' = router
  /\ \A c, d \in CallIds :
       (c # d /\ calls'[c] # calls[c]) => calls'[d] = calls[d]

\* C24: under every interleaving of concurrent invocations no invocation
\* waits for another, the accessor of each receives that invocation's own
\* input, each outcome is determined by the invocation's own input, context
\* and accessor answer, and the router is unchanged by any invocation.
C24_IndependentInvocations ==
  /\ [](NeverBlocked /\ OwnInputAndOutcome)
  /\ [][OneInvocationPerStep]_vars

C24_Witness ==
  \E c, d \in Started :
    /\ c # d
    /\ calls[c].pc = "awaiting"
    /\ calls[d].pc = "done"
    /\ calls[d].outcome.kind = "result"
    /\ calls[c].input # calls[d].input
    /\ calls[c].op # calls[d].op

\* the four ways an invocation may end
IsResult(outcome) == outcome.kind = "result"
IsValidationError(outcome) ==
  outcome.kind = "TRPCError" /\ outcome.code = "BAD_REQUEST"
IsConfigurationError(outcome) ==
  /\ outcome.kind = "TRPCError"
  /\ outcome.code = "INTERNAL_SERVER_ERROR"
  /\ outcome.op # ""
IsAccessorFailure(outcome) == outcome.kind = "AccessorError"

\* C25: every invocation ends in exactly one of four outcomes, the accessor's
\* result, a Validation Error, a Configuration Error or the accessor's
\* failure, and invokes the accessor method at most once: none after a
\* validation or configuration failure, no second call after a failure.
C25_FourOutcomesOneCall ==
  \A c \in Started :
    /\ Len(calls[c].invoked) <= 1
    /\ calls[c].pc = "done" =>
         /\ \/ IsResult(calls[c].outcome)
            \/ IsValidationError(calls[c].outcome)
            \/ IsConfigurationError(calls[c].outcome)
            \/ IsAccessorFailure(calls[c].outcome)
         /\ (IsValidationError(calls[c].outcome)
             \/ IsConfigurationError(calls[c].outcome))
              => calls[c].invoked = <<>>

\* C26: distinct model names of a schema map to distinct sub-router keys, so
\* every model's sub-router is its own, also for names that differ only in
\* the case of their first character.
C26_DistinctKeys ==
  built =>
    \A M1, M2 \in DOMAIN schema.models :
      /\ M1 # M2 => Uncapitalize(M1) # Uncapitalize(M2)
      /\ \A op \in DOMAIN router[Uncapitalize(M1)] :
           router[Uncapitalize(M1)][op].modelName = M1

\* C27: with no data-accessor object in the context at all, an invocation
\* with validator-accepted input fails with the Configuration Error (code
\* INTERNAL_SERVER_ERROR, naming the operation and the model) it gives when
\* only the model's accessor property is missing.
C27_MissingAccessorObject ==
  \A c \in Started :
    (/\ Accepts(ValidatorOf(calls[c]), calls[c].input)
     /\ ~calls[c].ctx.db.present
     /\ calls[c].pc = "done") =>
      calls[c].outcome =
        [Thrown("TRPCError", "INTERNAL_SERVER_ERROR")
           EXCEPT !.op = calls[c].op,
                  !.model = router[calls[c].key][calls[c].op].modelName]

\* the value holds an object of a class, here a Uint8Array, somewhere
RECURSIVE HasClassInstance(_)
HasClassInstance(v) ==
  CASE v.k = "bytes" -> TRUE
    [] v.k = "obj" -> \E key \in DOMAIN v.f : HasClassInstance(v.f[key])
    [] v.k = "arr" -> \E i \in DOMAIN v.s : HasClassInstance(v.s[i])
    [] OTHER -> FALSE

\* C28: validation is non-transforming: for every operation and every input
\* the validator accepts, the validated value, which the handler hands to the
\* accessor, equals the caller's input.
C28_NonTransforming ==
  (probe.fn \in Operations /\ probe.out.ok) => probe.out.v = probe.input

\* C28 (amended): for every operation and every accepted input made of
\* primitives, arrays and plain objects the validated value equals the
\* caller's input, unknown keys at any nesting level included.
C28_PlainInputsUnchanged ==
  (probe.fn \in Operations /\ probe.out.ok /\ ~HasClassInstance(probe.input))
    => probe.out.v = probe.input

C28_Witness ==
  /\ probe.fn = "findMany"
  /\ probe.model = ProbeName
  /\ probe.out.ok
  /\ Get(Get(probe.input, "where"), "email").k = "obj"
  /\ UnknownKey \in DOMAIN probe.input.f["where"].f["email"].f
  /\ "include" \in DOMAIN probe.input.f
  /\ probe.out.v = probe.input

\* C29: updateData accepts null and omission for every
\* non-identifier scalar field f, required ones included, and createData
\* rejects null for every required field f that has no default and is no
\* identifier, auto-updated timestamp or foreign key.
C29_NullInUpdateNotInCreate ==
  /\ (/\ probe.fn = "updateData"
      /\ ~ProbedField.id
      /\ ~ProbedField.relation
      /\ EmailValidForUpdate(probe.input)
      /\ Omits(probe.input, "f") \/ probe.input.f["f"] = Null) => probe.out.ok
  /\ (/\ probe.fn = "createData"
      /\ ~ProbedField.relation
      /\ ~OptionalInCreate(ProbedField)
      /\ Supplies(probe.input, "f")
      /\ probe.input.f["f"] = Null) => ~probe.out.ok

LookupOperations == {"findUnique", "update", "upsert", "delete"}

\* the arguments of a lookup request other than where are valid
LookupRestValid ==
  /\ probe.input.k = "obj"
  /\ \A key \in {"select", "include"} : Get(probe.input, key) = Undef
  /\ probe.fn = "update" =>
       Accepts(createUpdateDataSchema(schema, probe.model),
               Get(probe.input, "data"))
  /\ probe.fn = "upsert" =>
       /\ Accepts(createCreateDataSchema(schema, probe.model),
                  Get(probe.input, "create"))
       /\ Accepts(createUpdateDataSchema(schema, probe.model),
                  Get(probe.input, "update"))

\* C30: findUnique, update, upsert and delete accept where: {} (and null for
\* a simple unique field), and reject a request whose other arguments are
\* valid only when where is no object (a string, null or missing).
C30_OnlyNonObjectWhereRejected ==
  (probe.fn \in LookupOperations /\ probe.model = ProbeName /\ LookupRestValid)
    => (probe.out.ok <=> IsObject(Get(probe.input, "where")))

\* C30 (amended): findUnique, update, upsert and delete accept where: {} and
\* null for a simple unique field; a request whose other arguments are valid
\* is rejected when where is no object and also when where gives a declared
\* unique constraint a value that is not of its type.
C30_NoUniqueKeyRequired ==
  (probe.fn \in LookupOperations /\ probe.model = ProbeName /\ LookupRestValid)
    => /\ Get(probe.input, "where") = EmptyObj => probe.out.ok
       /\ (\E key \in DOMAIN UniqueFields :
             /\ ~UniqueFields[key].compound
             /\ Get(probe.input, "where") = Obj([k \in {key} |-> Null]))
            => probe.out.ok
       /\ probe.out.ok <=>
            /\ IsObject(Get(probe.input, "where"))
            /\ \A key \in DOMAIN UniqueFields :
                 UniqueConforms(UniqueFields[key],
                                Get(Get(probe.input, "where"), key))

C30_Witness ==
  /\ probe.fn = "upsert"
  /\ probe.model = ProbeName
  /\ Get(probe.input, "where") = EmptyObj
  /\ LookupRestValid
  /\ probe.out.ok

====
